---- MODULE Spec2Model ----
(***************************************************************************)
(* Model of vibe-jam's src/main.py: the Ghostty theme generator.           *)
(*                                                                         *)
(* A Python str is modelled as a sequence of one-character strings, so     *)
(* that formatting, str(), strip(), lower() and join() are computed and    *)
(* not assumed.  A dict is a sequence of entries in insertion order.       *)
(***************************************************************************)
EXTENDS Integers, Sequences, FiniteSets, TLC

VARIABLES
    pc,             \* where the process is
    api_key,        \* load_api_key's api_key
    theme_name,     \* main's theme_name
    theme_data,     \* main's theme_data
    conf_content,   \* main's conf_content
    log,            \* the diagnostics printed so far
    json_files,     \* the JSON files written, under the working directory
    files,          \* the text files of the file system: [path, content]
    dirs,           \* the directories created
    runs,           \* the argument list of every call of subprocess.run so far
    cmds,           \* the CompletedProcess of every call that returned
    prompts,        \* how many times the consent prompt was shown
    answer,         \* the line the operator typed at the consent prompt
    resp,           \* prompt_and_attempt_sudo_save's resp
    dir_path,       \* _attempt_save_with_sudo's dir_path
    file_path,      \* _attempt_save_with_sudo's file_path
    tmp_path,       \* _attempt_save_with_sudo's tmp_path
    rm_error,       \* whether os.remove(tmp_path) raised the OSError that is ignored
    invalid_names   \* how many theme names get_theme_name rejected

vars == <<pc, api_key, theme_name, theme_data, conf_content, log, json_files,
          files, dirs, runs, cmds, prompts, answer, resp, dir_path, file_path,
          tmp_path, rm_error, invalid_names>>

---------------------------------------------------------------------------
(* Program constants *)

\* range(16)
PaletteSize == 16
\* errno of EACCES, tested by e.errno == 13
EACCES == 13

(* Bounds of the model *)

\* palettes with at most this many of the 16 indices absent ...
MaxAbsent == 1
\* ... or with at most this many of them present
MaxPresent == 2
\* top-level scalar entries of a generated document
MaxScalars == 2
\* rejected theme names before a valid one is entered
MaxInvalidNames == 1

---------------------------------------------------------------------------
(* String literals of the source *)

NL == <<"\n">>
s_palette == <<"p","a","l","e","t","t","e">>
s_palette_eq == <<"p","a","l","e","t","t","e"," ","="," ">>
s_eq == <<"=">>
s_sp_eq_sp == <<" ","="," ">>
s_y == <<"y">>
s_sudo == <<"s","u","d","o">>
s_mkdir == <<"m","k","d","i","r">>
s_dash_p == <<"-","p">>
s_mv == <<"m","v">>
s_slash == <<"/">>
s_json_ext == <<".","j","s","o","n">>
s_themes == <<"t","h","e","m","e","s">>
s_ghostty == <<"g","h","o","s","t","t","y">>
s_minus == <<"-">>
s_placeholder == <<"Y","O","U","R","_","A","P","I","_","K","E","Y","_","H","E","R","E">>
\* save_conf_to_ghostty's ghostty_themes_dir
ghostty_themes_dir == <<"/","A","p","p","l","i","c","a","t","i","o","n","s","/","G","h","o","s","t","t","y",".","a","p","p","/","C","o","n","t","e","n","t","s","/","R","e","s","o","u","r","c","e","s","/","t","h","e","m","e","s">>
\* prompt_and_attempt_sudo_save's ghostty_themes_dir
sudo_ghostty_themes_dir == <<"/","A","p","p","l","i","c","a","t","i","o","n","s","/","G","h","o","s","t","t","y",".","a","p","p","/","C","o","n","t","e","n","t","s","/","R","e","s","o","u","r","c","e","s","/","g","h","o","s","t","t","y","/","t","h","e","m","e","s">>

s_None == <<"N","o","n","e">>
s_True == <<"T","r","u","e">>
s_False == <<"F","a","l","s","e">>

---------------------------------------------------------------------------
(* str methods and built-ins *)

Digits == <<"0","1","2","3","4","5","6","7","8","9">>

\* The characters are those of Latin-1 (U+0000..U+00FF).  The three tables
\* below are Python's own: every c with c.lower() != c beside its c.lower(),
\* every c with c.isspace(), every c with c.isalnum().
UpperChars == <<"A","B","C","D","E","F","G","H","I","J","K","L","M",
               "N","O","P","Q","R","S","T","U","V","W","X","Y","Z",
               "À","Á","Â","Ã","Ä","Å","Æ","Ç","È","É","Ê","Ë","Ì",
               "Í","Î","Ï","Ð","Ñ","Ò","Ó","Ô","Õ","Ö","Ø","Ù","Ú",
               "Û","Ü","Ý","Þ">>
LowerChars == <<"a","b","c","d","e","f","g","h","i","j","k","l","m",
               "n","o","p","q","r","s","t","u","v","w","x","y","z",
               "à","á","â","ã","ä","å","æ","ç","è","é","ê","ë","ì",
               "í","î","ï","ð","ñ","ò","ó","ô","õ","ö","ø","ù","ú",
               "û","ü","ý","þ">>
SpaceChars == {"\t","\n","","\f","\r","","","",""," ",""," "}
AlnumChars == {"0","1","2","3","4","5","6","7","8","9","A","B","C",
               "D","E","F","G","H","I","J","K","L","M","N","O","P",
               "Q","R","S","T","U","V","W","X","Y","Z","a","b","c",
               "d","e","f","g","h","i","j","k","l","m","n","o","p",
               "q","r","s","t","u","v","w","x","y","z","ª","²","³",
               "µ","¹","º","¼","½","¾","À","Á","Â","Ã","Ä","Å","Æ",
               "Ç","È","É","Ê","Ë","Ì","Í","Î","Ï","Ð","Ñ","Ò","Ó",
               "Ô","Õ","Ö","Ø","Ù","Ú","Û","Ü","Ý","Þ","ß","à","á",
               "â","ã","ä","å","æ","ç","è","é","ê","ë","ì","í","î",
               "ï","ð","ñ","ò","ó","ô","õ","ö","ø","ù","ú","û","ü",
               "ý","þ","ÿ"}

RangeOf(s) == {s[k] : k \in 1..Len(s)}

\* str(i) of an int i >= 0
RECURSIVE Str(_)
Str(i) == IF i < 10 THEN <<Digits[i + 1]>>
          ELSE Str(i \div 10) \o <<Digits[(i % 10) + 1]>>

\* c.lower() of a character
LowerCh(c) == IF c \in RangeOf(UpperChars)
              THEN LowerChars[CHOOSE k \in 1..Len(UpperChars) : UpperChars[k] = c]
              ELSE c

\* s.lower()
Lower(s) == [k \in 1..Len(s) |-> LowerCh(s[k])]

\* c.isspace() of a character
IsSpace(c) == c \in SpaceChars

\* s.lstrip()
RECURSIVE LStrip(_)
LStrip(s) == IF s # <<>> /\ IsSpace(Head(s)) THEN LStrip(Tail(s)) ELSE s

\* s.rstrip()
RECURSIVE RStrip(_)
RStrip(s) == IF s # <<>> /\ IsSpace(s[Len(s)])
             THEN RStrip(SubSeq(s, 1, Len(s) - 1)) ELSE s

\* s.strip()
Strip(s) == RStrip(LStrip(s))

\* c.isalnum() of a character
IsAlnum(c) == c \in AlnumChars

\* sub in s
Contains(sub, s) ==
    \E k \in 0..(Len(s) - Len(sub)) : SubSeq(s, k + 1, k + Len(sub)) = sub

\* sep.join(lines)
RECURSIVE Join(_, _)
Join(lines, sep) ==
    IF lines = <<>> THEN <<>>
    ELSE IF Len(lines) = 1 THEN lines[1]
    ELSE lines[1] \o sep \o Join(Tail(lines), sep)

\* os.path.join(a, b) for a relative b
PathJoin(a, b) == a \o s_slash \o b

---------------------------------------------------------------------------
(* The values json.loads returns *)

\* a str, None, an int, a bool, and a dict whose entries are held beside it
PStr(s) == [type |-> "str", s |-> s, n |-> 0]
PNone == [type |-> "NoneType", s |-> <<>>, n |-> 0]
PInt(n) == [type |-> "int", s |-> <<>>, n |-> n]
PBool(b) == [type |-> "bool", s |-> <<>>, n |-> IF b THEN 1 ELSE 0]
PDict == [type |-> "dict", s |-> <<>>, n |-> 0]

\* an entry of the palette dict, and an entry of the top-level dict (map
\* holds the entries of a value that is a dict)
Entry(k, v) == [key |-> k, value |-> v]
TopEntry(k, v, m) == [key |-> k, value |-> v, map |-> m]

\* the top-level value: a dict (items), a list of ints (elems), or a scalar
JDict(items) == [type |-> "dict", items |-> items, elems |-> <<>>, s |-> <<>>, n |-> 0]
JList(elems) == [type |-> "list", items |-> <<>>, elems |-> elems, s |-> <<>>, n |-> 0]
JStr(s) == [type |-> "str", items |-> <<>>, elems |-> <<>>, s |-> s, n |-> 0]
JInt(n) == [type |-> "int", items |-> <<>>, elems |-> <<>>, s |-> <<>>, n |-> n]
JNone == [type |-> "NoneType", items |-> <<>>, elems |-> <<>>, s |-> <<>>, n |-> 0]

\* a variant of Falsy that tests for the empty string only
FalsyMut(v) == v.type = "str" /\ v.s = <<>>
\* not v, for a str, None, an int or a bool
Falsy(v) ==
    CASE v.type = "NoneType" -> TRUE
      [] v.type = "str" -> v.s = <<>>
      [] v.type \in {"int", "bool"} -> v.n = 0

\* f"{v}" of a str, None, an int or a bool
Format(v) ==
    CASE v.type = "str" -> v.s
      [] v.type = "NoneType" -> s_None
      [] v.type = "int" -> IF v.n < 0 THEN s_minus \o Str(0 - v.n) ELSE Str(v.n)
      [] v.type = "bool" -> IF v.n = 1 THEN s_True ELSE s_False

---------------------------------------------------------------------------
(* convert_theme_to_conf *)

\* a printed diagnostic: a tag and the number the message carries
Msg(tag, n) == [tag |-> tag, n |-> n]

\* d.get(k) of a dict d given as a sequence of [key, value] entries
DictGet(d, k) ==
    IF \E j \in 1..Len(d) : d[j].key = k
    THEN d[CHOOSE j \in 1..Len(d) : d[j].key = k].value
    ELSE PNone

\* theme_data.get("palette", {}): the value and, when it is a dict, its entries
PaletteOf(items) ==
    IF \E j \in 1..Len(items) : items[j].key = s_palette
    THEN LET e == items[CHOOSE j \in 1..Len(items) : items[j].key = s_palette]
         IN  [type |-> e.value.type, map |-> e.map]
    ELSE [type |-> "dict", map |-> <<>>]

\* a variant of PaletteLine with ": " for "="
PaletteLineMut(i, hex_code) == s_palette_eq \o Str(i) \o <<":"," ">> \o Format(hex_code)
\* f"palette = {i}={hex_code}"
PaletteLine(i, hex_code) == s_palette_eq \o Str(i) \o s_eq \o Format(hex_code)

\* a variant of ScalarLine without the spaces around "="
ScalarLineMut(key, value) == key \o s_eq \o Format(value)
\* f"{key} = {value}"
ScalarLine(key, value) == key \o s_sp_eq_sp \o Format(value)

\* the loop over range(16), from index i on; acc holds lines and printed warnings
RECURSIVE PaletteLoop(_, _, _)
PaletteLoop(palette, i, acc) ==
    IF i >= PaletteSize THEN acc
    ELSE LET hex_code == DictGet(palette, Str(i))
         IN  IF Falsy(hex_code)
             THEN PaletteLoop(palette, i + 1,
                     [acc EXCEPT !.out = Append(@, Msg("warn_palette_missing", i))])
             ELSE PaletteLoop(palette, i + 1,
                     [acc EXCEPT !.lines = Append(@, PaletteLine(i, hex_code))])

\* the loop over theme_data.items(), from entry j on
RECURSIVE ItemsLoop(_, _, _)
ItemsLoop(items, j, acc) ==
    IF j > Len(items) THEN acc
    ELSE IF items[j].key = s_palette
         THEN ItemsLoop(items, j + 1, acc)
         ELSE ItemsLoop(items, j + 1,
                 [acc EXCEPT !.lines = Append(@, ScalarLine(items[j].key, items[j].value))])

\* a variant of Finish without the trailing newline
FinishMut(lines) == Join(lines, NL)
\* "\n".join(lines) + "\n"
Finish(lines) == Join(lines, NL) \o NL

\* convert_theme_to_conf(theme_data): the text returned and the warnings
\* printed, or the line at which AttributeError is raised: theme_data.get
\* when theme_data is no dict, palette.get when the palette is no dict
ConvertThemeToConf(data) ==
    IF data.type # "dict"
    THEN [raised |-> 153, text |-> <<>>, out |-> <<>>]
    ELSE IF PaletteOf(data.items).type # "dict"
    THEN [raised |-> 155, text |-> <<>>, out |-> <<>>]
    ELSE LET acc == ItemsLoop(data.items, 1,
                       PaletteLoop(PaletteOf(data.items).map, 0,
                                   [lines |-> <<>>, out |-> <<>>]))
         IN  [raised |-> 0, text |-> Finish(acc.lines), out |-> acc.out]

---------------------------------------------------------------------------
(* Generated documents: what json.loads can hand to the program *)

Color1 == <<"#","1","1","1","1","1","1">>
Color2 == <<"#","f","f","0","0","0","0">>

s_background == <<"b","a","c","k","g","r","o","u","n","d">>
s_foreground == <<"f","o","r","e","g","r","o","u","n","d">>
\* top-level keys: two of the schema, and three of the open-ended ones, with
\* a newline, with " = " and with " =" at the end
SchemaKeys == {s_background, s_foreground}
OpenKeys == {<<"a","\n","b">>, <<"a"," ","="," ","b">>, <<"x"," ","=">>}
ScalarKeys == SchemaKeys \cup OpenKeys
ScalarValues == {PStr(Color1), PStr(<<"x","\n">>), PStr(<<"a"," ","="," ","b">>)}

Indices == 0..(PaletteSize - 1)

ColorAt(i) == IF i % 2 = 0 THEN Color1 ELSE Color2

\* the palette holding exactly the indices of P, inserted in ascending order
RECURSIVE AscPalette(_, _)
AscPalette(P, i) ==
    IF i >= PaletteSize THEN <<>>
    ELSE (IF i \in P THEN <<Entry(Str(i), PStr(ColorAt(i)))>> ELSE <<>>)
         \o AscPalette(P, i + 1)

Reverse(s) == [k \in 1..Len(s) |-> s[Len(s) + 1 - k]]

PresentSets ==
    {P \in SUBSET Indices :
        \/ Cardinality(P) <= MaxPresent
        \/ PaletteSize - Cardinality(P) <= MaxAbsent}

\* palettes of theme documents, in ascending and in descending insertion order
RegularPalettes ==
    {AscPalette(P, 0) : P \in PresentSets} \cup {Reverse(AscPalette(P, 0)) : P \in PresentSets}

\* palettes no theme document has: a value that is an empty string, null, 0
\* or a number, and an index out of range
IrregularPalettes ==
    {[AscPalette(Indices, 0) EXCEPT ![b + 1].value = v] :
        b \in {0, 9, 15}, v \in {PStr(<<>>), PNone, PInt(0), PInt(255)}}
    \cup {Append(AscPalette(Indices, 0), Entry(Str(PaletteSize), PStr(Color1)))}

Palettes == RegularPalettes \cup IrregularPalettes

Scalar(k, v) == TopEntry(k, v, <<>>)
PaletteEntry(p) == TopEntry(s_palette, PDict, p)

\* the top-level entries the documents are made of: every value under the
\* keys of the schema, a colour under the other keys
ScalarChoices ==
    {Scalar(k, v) : k \in SchemaKeys, v \in ScalarValues}
    \cup {Scalar(k, PStr(Color1)) : k \in OpenKeys}

RECURSIVE ScalarSeqs(_)
ScalarSeqs(n) ==
    IF n = 0 THEN {<<>>}
    ELSE LET shorter == ScalarSeqs(n - 1)
         IN  shorter \cup
             {Append(s, e) :
                 s \in {t \in shorter : Len(t) = n - 1}, e \in ScalarChoices}

DistinctKeys(s) == \A a, b \in 1..Len(s) : a # b => s[a].key # s[b].key

InsertAt(s, pos, e) == SubSeq(s, 1, pos) \o <<e>> \o SubSeq(s, pos + 1, Len(s))

\* the document of the specification's example
ExampleDoc ==
    <<PaletteEntry(<<Entry(<<"0">>, PStr(Color1)), Entry(<<"1">>, PStr(Color2))>>),
      Scalar(s_background, PStr(Color1))>>

\* every palette, in a few scalar contexts
PaletteDocs ==
    LET both == <<Scalar(s_background, PStr(Color1)), Scalar(s_foreground, PStr(Color2))>>
    IN  UNION {{<<PaletteEntry(p)>>,
                <<PaletteEntry(p), both[1]>>,
                <<both[1], PaletteEntry(p)>>,
                <<both[1], PaletteEntry(p), both[2]>>} : p \in Palettes}

\* every sequence of scalars, without a palette and around a few palettes
ScalarDocs ==
    LET scalars == {s \in ScalarSeqs(MaxScalars) : DistinctKeys(s)}
        few == {<<>>, AscPalette({0, 1}, 0), Reverse(AscPalette(Indices, 0))}
    IN  scalars \cup
        UNION {{InsertAt(s, pos, PaletteEntry(p)) : pos \in 0..Len(s), p \in few} :
                  s \in scalars}

\* documents no theme document is: a palette that is no dict, and scalars
\* that are no strings
IrregularDocs ==
    {<<TopEntry(s_palette, v, <<>>), Scalar(s_background, PStr(Color1))>> :
        v \in {PNone, PStr(Color1), PInt(7)}}
    \cup {<<PaletteEntry(AscPalette(Indices, 0)), Scalar(s_background, v)>> :
             v \in {PNone, PInt(12), PInt(0 - 3), PBool(TRUE), PBool(FALSE), PStr(<<>>)}}

\* every dict of the bounded input space
Docs == PaletteDocs \cup ScalarDocs \cup IrregularDocs

\* the values that are no dict
NonDicts == {JNone, JList(<<>>), JList(<<1>>), JStr(<<>>), JStr(Color1), JInt(0), JInt(7)}

---------------------------------------------------------------------------
(* The converter on its own: every dict of Docs and every other value,    *)
(* converted once                                                         *)

InitConv ==
    /\ pc = "convert"
    /\ api_key = <<"s","k","-","1">>
    /\ theme_name = <<"n","e","o","n">>
    /\ theme_data \in {JDict(d) : d \in Docs} \cup NonDicts
    /\ conf_content = <<>>
    /\ log = <<>>
    /\ json_files = {}
    /\ files = {}
    /\ dirs = {}
    /\ runs = <<>>
    /\ cmds = <<>>
    /\ prompts = 0
    /\ answer = <<>>
    /\ resp = <<>>
    /\ dir_path = <<>>
    /\ file_path = <<>>
    /\ tmp_path = <<>>
    /\ rm_error = FALSE
    /\ invalid_names = 0

\* main: conf_content = convert_theme_to_conf(theme_data); an AttributeError
\* is caught nowhere and ends the process with a traceback
Convert ==
    /\ pc = "convert"
    /\ LET r == ConvertThemeToConf(theme_data)
       IN  IF r.raised # 0
           THEN /\ log' = Append(log, Msg("traceback_attribute_error", r.raised))
                /\ pc' = "crashed"
                /\ UNCHANGED conf_content
           ELSE /\ conf_content' = r.text
                /\ log' = log \o r.out
                /\ pc' = "save_conf"
    /\ UNCHANGED <<api_key, theme_name, theme_data, json_files, files, dirs, runs,
                   cmds, prompts, answer, resp, dir_path, file_path, tmp_path,
                   rm_error, invalid_names>>

NextConv == Convert

SpecConv == InitConv /\ [][NextConv]_vars

---------------------------------------------------------------------------
(* The whole program: main *)

\* what the environment can answer
ApiKeys == {<< >>, <<"s","k","-","1">>, <<"x","Y","O","U","R","_","A","P","I","_","K","E","Y","_","H","E","R","E","x">>}
RawNames == {<<"N","e","o","n">>, <<" ","a","+","b","\r">>, <<"a"," ","b">>, << >>, <<"R","é","s","u","m","é">>}
Answers == {<<"y">>, <<" ","Y","\r">>, <<"n">>, << >>, <<"y","e","s">>}
TmpNames == {<<"/","t","m","p","/","t","m","p","a","1">>, <<"/","t","m","p","/","t","m","p","b","2">>}
ExitCodes == {0, 1}
\* errno of an OSError of os.makedirs and open: EPERM, EACCES, EROFS
Errnos == {1, EACCES, 30}
\* a system call returns normally (0) or raises OSError(errno)
SysResults == {0} \cup Errnos
\* errno of the OSError of NamedTemporaryFile and tmp.write: ENOSPC
TmpErrnos == {28}
\* errno of the OSError of a write to, or of the close of, a file that was
\* opened: ENOSPC
WriteErrnos == {28}
\* what a file holds when writing it failed: nothing, or the first half of
\* the text (two of the proper prefixes the file system can leave)
Truncations(text) == {<<>>, SubSeq(text, 1, Len(text) \div 2)}
\* errno of the OSError of subprocess.run when sudo cannot be started: ENOENT
RunErrnos == {2}
\* subprocess.run returns a CompletedProcess with rc, or raises OSError(rc)
RunOutcomes ==
    {[raised |-> FALSE, rc |-> c] : c \in ExitCodes}
    \cup {[raised |-> TRUE, rc |-> e] : e \in RunErrnos}

\* input() at the end of standard input
EOF == <<"<EOF>">>

\* the values json.loads returns in the runs of the whole program
PipelineValues ==
    {JDict(<< >>),
     JDict(ExampleDoc),
     JDict(<<Scalar(s_background, PStr(Color1)),
             PaletteEntry(Reverse(AscPalette(Indices, 0))),
             Scalar(s_foreground, PStr(<<"x","\n">>))>>),
     JNone,
     JList(<<1>>)}

Init ==
    /\ pc = "load_api_key"
    /\ api_key = <<>>
    /\ theme_name = <<>>
    /\ theme_data = JNone
    /\ conf_content = <<>>
    /\ log = <<>>
    /\ json_files = {}
    /\ files = {}
    /\ dirs = {}
    /\ runs = <<>>
    /\ cmds = <<>>
    /\ prompts = 0
    /\ answer = <<>>
    /\ resp = <<>>
    /\ dir_path = <<>>
    /\ file_path = <<>>
    /\ tmp_path = <<>>
    /\ rm_error = FALSE
    /\ invalid_names = 0

\* load_api_key: exit(1) without a key or with the placeholder
LoadApiKey ==
    /\ pc = "load_api_key"
    /\ \E key \in ApiKeys :
          /\ api_key' = key
          /\ IF key = <<>>
             THEN log' = Append(log, Msg("api_key_not_found", 0)) /\ pc' = "exited"
             ELSE IF Contains(s_placeholder, key)
             THEN log' = Append(log, Msg("placeholder_api_key", 0)) /\ pc' = "exited"
             ELSE log' = log /\ pc' = "get_theme_name"
    /\ UNCHANGED <<theme_name, theme_data, conf_content, json_files, files, dirs,
                   runs, cmds, prompts, answer, resp, dir_path, file_path, tmp_path,
                   rm_error, invalid_names>>

ForbiddenChars == {" ", "/", "\\", ".", ":", "*", "?", "\"", "<", ">", "|"}

\* "".join(c if c.isalnum() or c in ['-', '_'] else '_' for c in theme_name)
Sanitize(name) ==
    [k \in 1..Len(name) |->
        IF IsAlnum(name[k]) \/ name[k] \in {"-", "_"} THEN name[k] ELSE "_"]

\* get_theme_name: one turn of the loop; the EOFError of input() is caught
\* nowhere and ends the process with a traceback
GetThemeName ==
    /\ pc = "get_theme_name"
    /\ \/ \E raw \in RawNames :
             LET name == Lower(Strip(raw))
             IN  IF name # <<>> /\ RangeOf(name) \cap ForbiddenChars = {}
                 THEN /\ theme_name' = Sanitize(name)
                      /\ pc' = "generate"
                      /\ UNCHANGED <<log, invalid_names>>
                 ELSE /\ invalid_names < MaxInvalidNames
                      /\ invalid_names' = invalid_names + 1
                      /\ log' = Append(log, Msg("invalid_theme_name", 0))
                      /\ UNCHANGED <<theme_name, pc>>
       \/ /\ log' = Append(log, Msg("traceback_eof_error", 67))
          /\ pc' = "crashed"
          /\ UNCHANGED <<theme_name, invalid_names>>
    /\ UNCHANGED <<api_key, theme_data, conf_content, json_files, files, dirs, runs,
                   cmds, prompts, answer, resp, dir_path, file_path, tmp_path,
                   rm_error>>

\* generate_ghostty_theme_json: whatever json.loads returns (None for null),
\* or None after a JSONDecodeError or any other exception
GenerateGhosttyThemeJson ==
    /\ pc = "generate"
    /\ \/ \E value \in PipelineValues :
             /\ theme_data' = value
             /\ log' = Append(log, Msg("theme_json_parsed", 0))
       \/ \E failure \in {"json_decode_error", "openai_error"} :
             /\ theme_data' = JNone
             /\ log' = Append(log, Msg(failure, 0))
    /\ pc' = "main_branch"
    /\ UNCHANGED <<api_key, theme_name, conf_content, json_files, files, dirs, runs,
                   cmds, prompts, answer, resp, dir_path, file_path, tmp_path,
                   rm_error, invalid_names>>

\* a variant of Truthy that takes every value for a result
TruthyMut(v) == TRUE
\* main: if theme_data
Truthy(v) ==
    CASE v.type = "NoneType" -> FALSE
      [] v.type = "dict" -> v.items # <<>>
      [] v.type = "list" -> v.elems # <<>>
      [] v.type = "str" -> v.s # <<>>
      [] v.type \in {"int", "bool"} -> v.n # 0

\* what a JSON file holds when json.dump failed: a truncated text, no JSON
NotJson == [type |-> "not_json", items |-> <<>>, elems |-> <<>>, s |-> <<>>, n |-> 0]

\* fs with the file at path holding content
WriteFile(fs, path, content) ==
    {f \in fs : f.path # path} \cup {[path |-> path, content |-> content]}

\* main's else branch
MainElse ==
    /\ pc = "main_branch"
    /\ ~Truthy(theme_data)
    /\ log' = Append(log, Msg("failed_to_generate", 0))
    /\ pc' = "done"
    /\ UNCHANGED <<api_key, theme_name, theme_data, conf_content, json_files, files,
                   dirs, runs, cmds, prompts, answer, resp, dir_path, file_path,
                   tmp_path, rm_error, invalid_names>>

\* save_theme_to_file(theme_name, theme_data): os.makedirs raises, or open
\* raises, or open has created (or emptied) the file and json.dump or the
\* close raises, or the file is written
SaveThemeToFile ==
    /\ pc = "main_branch"
    /\ Truthy(theme_data)
    /\ LET output_dir == PathJoin(s_themes, s_ghostty)
           path == PathJoin(output_dir, theme_name \o s_json_ext)
           Written(data) == {f \in json_files : f.path # path}
                            \cup {[path |-> path, data |-> data]}
       IN  \E mk \in SysResults :
              IF mk # 0
              THEN /\ log' = Append(log, Msg("err_json_makedirs", mk))
                   /\ UNCHANGED <<dirs, json_files>>
              ELSE /\ dirs' = dirs \cup {output_dir}
                   /\ \/ \E op \in Errnos :
                            /\ log' = Append(log, Msg("err_json_write", op))
                            /\ UNCHANGED json_files
                      \/ \E wr \in WriteErrnos :
                            /\ json_files' = Written(NotJson)
                            /\ log' = Append(log, Msg("err_json_write", wr))
                      \/ /\ json_files' = Written(theme_data)
                         /\ log' = Append(log, Msg("json_saved", 0))
    /\ pc' = "convert"
    /\ UNCHANGED <<api_key, theme_name, theme_data, conf_content, files, runs, cmds,
                   prompts, answer, resp, dir_path, file_path, tmp_path, rm_error,
                   invalid_names>>

\* a variant of IsPermissionDenied that escalates on any OSError
IsPermissionDeniedMut(errno) == TRUE
\* isinstance(e, PermissionError) or e.errno == 13; an OSError is a
\* PermissionError when its errno is EPERM or EACCES
IsPermissionDenied(errno) == errno \in {1, EACCES} \/ errno = EACCES

\* save_conf_to_ghostty(theme_name, conf_content), up to the call of
\* prompt_and_attempt_sudo_save: os.makedirs raises, or open raises, or open
\* has created (or emptied) the file and f.write or the close raises, or the
\* file is written
SaveConfToGhostty ==
    /\ pc = "save_conf"
    /\ LET path == PathJoin(ghostty_themes_dir, Lower(theme_name))
       IN  \E mk \in SysResults :
              IF mk # 0
              THEN /\ log' = Append(log, Msg("err_makedirs", mk))
                   /\ pc' = IF IsPermissionDenied(mk) THEN "prompt" ELSE "done"
                   /\ UNCHANGED <<dirs, files>>
              ELSE /\ dirs' = dirs \cup {ghostty_themes_dir}
                   /\ \/ \E op \in Errnos :
                            /\ log' = Append(log, Msg("err_write", op))
                            /\ pc' = IF IsPermissionDenied(op) THEN "prompt" ELSE "done"
                            /\ UNCHANGED files
                      \/ \E wr \in WriteErrnos, part \in Truncations(conf_content) :
                            /\ files' = WriteFile(files, path, part)
                            /\ log' = Append(log, Msg("err_write", wr))
                            /\ pc' = IF IsPermissionDenied(wr) THEN "prompt" ELSE "done"
                      \/ /\ files' = WriteFile(files, path, conf_content)
                         /\ log' = Append(log, Msg("saved", 0))
                         /\ pc' = "done"
    /\ UNCHANGED <<api_key, theme_name, theme_data, conf_content, json_files, runs,
                   cmds, prompts, answer, resp, dir_path, file_path, tmp_path,
                   rm_error, invalid_names>>

\* a variant of ConsentGiven that accepts any answer starting with y
ConsentGivenMut(r) == r # <<>> /\ r[1] = "y"
\* not (resp != 'y')
ConsentGiven(r) == r = s_y

\* prompt_and_attempt_sudo_save, up to the call of _attempt_save_with_sudo;
\* the EOFError of input() is caught nowhere and ends the process
PromptAndAttemptSudoSave ==
    /\ pc = "prompt"
    /\ prompts' = prompts + 1
    /\ \/ \E line \in Answers :
             /\ answer' = line
             /\ resp' = Lower(Strip(line))
             /\ IF ~ConsentGiven(resp')
                THEN /\ log' = Append(log, Msg("skip_sudo", 0))
                     /\ pc' = "done"
                     /\ UNCHANGED <<dir_path, file_path>>
                ELSE /\ dir_path' = sudo_ghostty_themes_dir
                     /\ file_path' = PathJoin(sudo_ghostty_themes_dir, Lower(theme_name))
                     /\ log' = log
                     /\ pc' = "sudo_mkdir"
       \/ /\ answer' = EOF
          /\ log' = Append(log, Msg("traceback_eof_error", 197))
          /\ pc' = "crashed"
          /\ UNCHANGED <<resp, dir_path, file_path>>
    /\ UNCHANGED <<api_key, theme_name, theme_data, conf_content, json_files, files,
                   dirs, runs, cmds, tmp_path, rm_error, invalid_names>>

\* subprocess.run's CompletedProcess
CompletedProcess(args, returncode) == [args |-> args, returncode |-> returncode]

\* a variant of MkdirFailed that ignores the exit status
MkdirFailedMut(result) == FALSE
\* result.returncode != 0, after sudo mkdir
MkdirFailed(result) == result.returncode # 0

\* result.returncode != 0, after sudo mv
MvFailed(result) == result.returncode # 0

\* _attempt_save_with_sudo: sudo mkdir -p dir_path; its RuntimeError, and
\* the OSError of a subprocess.run that cannot start sudo, are caught and
\* printed by prompt_and_attempt_sudo_save
SudoMkdir ==
    /\ pc = "sudo_mkdir"
    /\ \E o \in RunOutcomes :
          LET mkdir_cmd == <<s_sudo, s_mkdir, s_dash_p, dir_path>>
              result == CompletedProcess(mkdir_cmd, o.rc)
          IN  /\ runs' = Append(runs, mkdir_cmd)
              /\ IF o.raised
                 THEN /\ log' = log \o <<Msg("requesting_sudo", 0),
                                         Msg("sudo_failed_other", o.rc)>>
                      /\ pc' = "done"
                      /\ UNCHANGED <<cmds, dirs>>
                 ELSE /\ cmds' = Append(cmds, result)
                      /\ IF MkdirFailed(result)
                         THEN /\ log' = log \o <<Msg("requesting_sudo", 0),
                                                 Msg("sudo_failed", o.rc)>>
                              /\ pc' = "done"
                              /\ dirs' = dirs
                         ELSE /\ log' = Append(log, Msg("requesting_sudo", 0))
                              /\ pc' = "tmp_write"
                              /\ dirs' = dirs \cup {dir_path}
    /\ UNCHANGED <<api_key, theme_name, theme_data, conf_content, json_files, files,
                   prompts, answer, resp, dir_path, file_path, tmp_path, rm_error,
                   invalid_names>>

\* _attempt_save_with_sudo: the NamedTemporaryFile(delete=False) holding
\* conf_content.encode().  An OSError of NamedTemporaryFile leaves no file;
\* one of tmp.write leaves the file and tmp_path unassigned; one of the close
\* at the end of the with block (the write was buffered) leaves the file and
\* tmp_path assigned; each is caught and printed by
\* prompt_and_attempt_sudo_save
TmpWrite ==
    /\ pc = "tmp_write"
    /\ \/ \E name \in TmpNames :
             /\ tmp_path' = name
             /\ files' = WriteFile(files, name, conf_content)
             /\ pc' = "sudo_mv"
             /\ log' = log
       \/ \E e \in TmpErrnos :
             /\ log' = Append(log, Msg("sudo_failed_other", e))
             /\ pc' = "done"
             /\ UNCHANGED <<tmp_path, files>>
       \/ \E name \in TmpNames, e \in TmpErrnos, part \in Truncations(conf_content) :
             /\ files' = WriteFile(files, name, part)
             /\ log' = Append(log, Msg("sudo_failed_other", e))
             /\ pc' = "done"
             /\ UNCHANGED tmp_path
       \/ \E name \in TmpNames, e \in WriteErrnos, part \in Truncations(conf_content) :
             /\ tmp_path' = name
             /\ files' = WriteFile(files, name, part)
             /\ log' = Append(log, Msg("sudo_failed_other", e))
             /\ pc' = "done"
    /\ UNCHANGED <<api_key, theme_name, theme_data, conf_content, json_files, dirs,
                   runs, cmds, prompts, answer, resp, dir_path, file_path, rm_error,
                   invalid_names>>

\* a variant of RemoveTmp that leaves the temporary file behind
RemoveTmpMut(fs, path, raised) == fs
\* try: os.remove(tmp_path) except OSError: pass
RemoveTmp(fs, path, raised) == IF raised THEN fs ELSE {f \in fs : f.path # path}

\* mv src dst, when it succeeds
Rename(fs, src, dst) ==
    LET moved == {f \in fs : f.path = src}
    IN  {f \in fs : f.path # src /\ f.path # dst}
        \cup {[path |-> dst, content |-> f.content] : f \in moved}

\* _attempt_save_with_sudo: sudo mv tmp_path file_path, and the clean-up
\* when it exits non-zero; when subprocess.run raises there is no clean-up
SudoMv ==
    /\ pc = "sudo_mv"
    /\ \E o \in RunOutcomes :
          LET mv_cmd == <<s_sudo, s_mv, tmp_path, file_path>>
              result == CompletedProcess(mv_cmd, o.rc)
          IN  /\ runs' = Append(runs, mv_cmd)
              /\ IF o.raised
                 THEN /\ log' = Append(log, Msg("sudo_failed_other", o.rc))
                      /\ UNCHANGED <<cmds, files, rm_error>>
                 ELSE /\ cmds' = Append(cmds, result)
                      /\ IF MvFailed(result)
                         THEN /\ \E raised \in BOOLEAN :
                                    /\ rm_error' = raised
                                    /\ files' = RemoveTmp(files, tmp_path, raised)
                              /\ log' = Append(log, Msg("sudo_failed", o.rc))
                         ELSE /\ files' = Rename(files, tmp_path, file_path)
                              /\ log' = Append(log, Msg("saved_via_sudo", 0))
                              /\ rm_error' = rm_error
    /\ pc' = "done"
    /\ UNCHANGED <<api_key, theme_name, theme_data, conf_content, json_files, dirs,
                   prompts, answer, resp, dir_path, file_path, tmp_path,
                   invalid_names>>

Next ==
    \/ LoadApiKey
    \/ GetThemeName
    \/ GenerateGhosttyThemeJson
    \/ MainElse
    \/ SaveThemeToFile
    \/ Convert
    \/ SaveConfToGhostty
    \/ PromptAndAttemptSudoSave
    \/ SudoMkdir
    \/ TmpWrite
    \/ SudoMv

Spec == Init /\ [][Next]_vars

---------------------------------------------------------------------------
(* Vocabulary of the properties.  These definitions read documents and    *)
(* texts on their own and use none of the converter's operators.          *)

\* text.split("\n")
RECURSIVE SplitNL(_)
SplitNL(text) ==
    IF \E k \in 1..Len(text) : text[k] = "\n"
    THEN LET k == CHOOSE k \in 1..Len(text) :
                     text[k] = "\n" /\ \A m \in 1..(k - 1) : text[m] # "\n"
         IN  <<SubSeq(text, 1, k - 1)>> \o SplitNL(SubSeq(text, k + 1, Len(text)))
    ELSE <<text>>

\* the decimal strings "0".."15" of the palette indices
IndexText == <<<<"0">>, <<"1">>, <<"2">>, <<"3">>, <<"4">>, <<"5">>, <<"6">>, <<"7">>,
               <<"8">>, <<"9">>, <<"1","0">>, <<"1","1">>, <<"1","2">>, <<"1","3">>, <<"1","4">>, <<"1","5">>>>

HexDigits == {"0","1","2","3","4","5","6","7","8","9",
              "a","b","c","d","e","f","A","B","C","D","E","F"}

\* a 6-hex-digit colour string
IsHexColor(v) == /\ Len(v) = 7
                 /\ v[1] = "#"
                 /\ \A k \in 2..7 : v[k] \in HexDigits

PaletteEntries(data) == SelectSeq(data.items, LAMBDA e : e.key = <<"p","a","l","e","t","t","e">>)
ScalarEntries(data) == SelectSeq(data.items, LAMBDA e : e.key # <<"p","a","l","e","t","t","e">>)

\* the palette sub-mapping of a document (empty when the key is missing)
DocPalette(data) ==
    IF PaletteEntries(data) = <<>> THEN <<>> ELSE PaletteEntries(data)[1].map

\* the data model's ThemeDocument: a mapping with distinct keys whose palette,
\* if any, is a mapping with keys among "0".."15" and well-formed colours for
\* values, and whose every other entry is a string
IsThemeDocument(data) ==
    /\ data.type = "dict"
    /\ \A a, b \in 1..Len(data.items) : a # b => data.items[a].key # data.items[b].key
    /\ \A a \in 1..Len(PaletteEntries(data)) : PaletteEntries(data)[a].value.type = "dict"
    /\ \A a \in 1..Len(ScalarEntries(data)) : ScalarEntries(data)[a].value.type = "str"
    /\ LET p == DocPalette(data)
       IN  /\ \A a, b \in 1..Len(p) : a # b => p[a].key # p[b].key
           /\ \A a \in 1..Len(p) :
                 /\ \E i \in 1..16 : p[a].key = IndexText[i]
                 /\ p[a].value.type = "str"
                 /\ IsHexColor(p[a].value.s)

\* the indices 0..15 the palette of the document holds
PresentIndices(data) ==
    {i \in 0..15 : \E a \in 1..Len(DocPalette(data)) :
                      DocPalette(data)[a].key = IndexText[i + 1]}

ValueAt(data, i) ==
    LET p == DocPalette(data)
    IN  p[CHOOSE a \in 1..Len(p) : p[a].key = IndexText[i + 1]].value.s

HasNewline(v) == \E k \in 1..Len(v) : v[k] = "\n"

\* no value of the document, top-level or of the palette, holds a newline
NoNewlineValues(data) ==
    /\ \A a \in 1..Len(data.items) : ~HasNewline(data.items[a].value.s)
    /\ \A a \in 1..Len(DocPalette(data)) : ~HasNewline(DocPalette(data)[a].value.s)

\* no key of the document, top-level or of the palette, holds a newline
NoNewlineKeys(data) ==
    /\ \A a \in 1..Len(data.items) : ~HasNewline(data.items[a].key)
    /\ \A a \in 1..Len(DocPalette(data)) : ~HasNewline(DocPalette(data)[a].key)

\* sub occurs in line
Occurs(sub, line) ==
    \E k \in 0..(Len(line) - Len(sub)) : SubSeq(line, k + 1, k + Len(sub)) = sub

\* no top-level key holds " = " or ends in " =": the first " = " of the key's
\* line is the one the converter put after the key
SeparableKeys(data) ==
    \A a \in 1..Len(data.items) : ~Occurs(<<" ","="," ">>, data.items[a].key \o <<" ","=">>)

\* the r-th smallest element of a set of numbers
NthOf(S, r) == CHOOSE x \in S : Cardinality({y \in S : y < x}) = r - 1

ExpectedPaletteLine(data, i) ==
    <<"p","a","l","e","t","t","e"," ","="," ">> \o IndexText[i + 1] \o <<"=">> \o ValueAt(data, i)

ExpectedScalarLine(e) == e.key \o <<" ","="," ">> \o e.value.s

Warnings == SelectSeq(log, LAMBDA m : m.tag = "warn_palette_missing")

\* convert_theme_to_conf has returned
Converted == pc = "save_conf"

\* the flat text read back: blank lines skipped, a line split at its first " = ",
\* a palette line split again at its first "="
FirstAt(sub, line) ==
    IF \E k \in 0..(Len(line) - Len(sub)) : SubSeq(line, k + 1, k + Len(sub)) = sub
    THEN 1 + CHOOSE k \in 0..(Len(line) - Len(sub)) :
                 /\ SubSeq(line, k + 1, k + Len(sub)) = sub
                 /\ \A m \in 0..(k - 1) : SubSeq(line, m + 1, m + Len(sub)) # sub
    ELSE 0

\* a variant of ParseLine that splits at the first "="
ParseLineMut(line) ==
    LET at == FirstAt(<<"=">>, line)
    IN  IF at = 0 THEN <<"malformed", line, <<>>>>
        ELSE <<"top", SubSeq(line, 1, at - 1), SubSeq(line, at + 1, Len(line))>>

ParseLine(line) ==
    LET at == FirstAt(<<" ","="," ">>, line)
    IN  IF at = 0 THEN <<"malformed", line, <<>>>>
        ELSE LET key == SubSeq(line, 1, at - 1)
                 val == SubSeq(line, at + 3, Len(line))
                 eq == FirstAt(<<"=">>, val)
             IN  IF key # <<"p","a","l","e","t","t","e">> THEN <<"top", key, val>>
                 ELSE IF eq = 0 THEN <<"malformed", line, <<>>>>
                 ELSE <<"palette", SubSeq(val, 1, eq - 1), SubSeq(val, eq + 1, Len(val))>>

ParseConf(text) ==
    LET lines == SplitNL(text)
    IN  {ParseLine(lines[k]) : k \in {m \in 1..Len(lines) : lines[m] # <<>>}}

\* the key/value pairs of a document, palette pairs and top-level pairs
DocPairs(data) ==
    {<<"palette", DocPalette(data)[a].key, DocPalette(data)[a].value.s>> :
        a \in 1..Len(DocPalette(data))}
    \cup {<<"top", ScalarEntries(data)[a].key, ScalarEntries(data)[a].value.s>> :
             a \in 1..Len(ScalarEntries(data))}

\* what C4 says of a converted document with a complete palette
CompletePaletteOutput ==
    LET lines == SplitNL(conf_content)
        scalars == ScalarEntries(theme_data)
    IN  /\ Len(lines) = 16 + Len(scalars) + 1
        /\ \A i \in 0..15 : lines[i + 1] = ExpectedPaletteLine(theme_data, i)
        /\ \A j \in 1..Len(scalars) : lines[16 + j] = ExpectedScalarLine(scalars[j])
        /\ lines[Len(lines)] = <<>>
        /\ lines[Len(lines) - 1] # <<>>

---------------------------------------------------------------------------
(* Claims about convert_theme_to_conf, under SpecConv *)

\* C4 as stated: for every theme document with all 16 palette indices the
\* text is the 16 palette lines in ascending order, one line per other
\* top-level key in order, and ends with exactly one newline.
C4_AsStated ==
    (pc # "convert" /\ IsThemeDocument(theme_data)
       /\ PresentIndices(theme_data) = 0..15)
    => (Converted /\ CompletePaletteOutput)

\* C4 amended: the same, for documents none of whose keys and values holds a
\* newline (keys and values are inserted verbatim, so a newline in one splits
\* or ends a line).
C4_CompletePalette ==
    (pc # "convert" /\ IsThemeDocument(theme_data)
       /\ PresentIndices(theme_data) = 0..15
       /\ NoNewlineKeys(theme_data)
       /\ NoNewlineValues(theme_data))
    => (Converted /\ CompletePaletteOutput)

\* a complete palette inserted in descending order, between two scalars one
\* of which has " = " in its key
C4_Witness ==
    /\ Converted /\ IsThemeDocument(theme_data)
    /\ PresentIndices(theme_data) = 0..15
    /\ NoNewlineKeys(theme_data) /\ NoNewlineValues(theme_data)
    /\ Len(ScalarEntries(theme_data)) = 2
    /\ ScalarEntries(theme_data)[1].key = <<"a"," ","="," ","b">>
    /\ DocPalette(theme_data)[1].key = <<"1","5">>

\* C5 as stated: reading the flat text back gives exactly the key/value pairs
\* of the document, when no value holds a newline.
C5_AsStated ==
    (pc # "convert" /\ IsThemeDocument(theme_data) /\ NoNewlineValues(theme_data))
    => (Converted /\ ParseConf(conf_content) = DocPairs(theme_data))

\* C5 amended: reading the flat text back gives exactly the key/value pairs
\* of the document, when no key and no value holds a newline and no
\* top-level key holds " = " or ends in " =".
C5_RoundTrip ==
    (pc # "convert" /\ IsThemeDocument(theme_data)
       /\ NoNewlineKeys(theme_data) /\ NoNewlineValues(theme_data)
       /\ SeparableKeys(theme_data))
    => (Converted /\ ParseConf(conf_content) = DocPairs(theme_data))

C5_Witness ==
    /\ Converted /\ IsThemeDocument(theme_data)
    /\ NoNewlineKeys(theme_data) /\ NoNewlineValues(theme_data)
    /\ SeparableKeys(theme_data)
    /\ Cardinality(ParseConf(conf_content)) = 17
    /\ \E a \in 1..Len(theme_data.items) : theme_data.items[a].value.s = <<"a"," ","="," ","b">>

\* C6: whatever indices are absent, the conversion does not fail, the palette
\* lines are those of the present indices in ascending order, one warning is
\* printed per absent index, and every other top-level entry is still
\* emitted.
C6_MissingIndices ==
    (pc # "convert" /\ IsThemeDocument(theme_data))
    => /\ Converted
       /\ LET present == PresentIndices(theme_data)
              n == Cardinality(present)
              lines == SplitNL(conf_content)
              scalars == ScalarEntries(theme_data)
              palText == [r \in 1..n |->
                             ExpectedPaletteLine(theme_data, NthOf(present, r)) \o <<"\n">>]
              scText == [j \in 1..Len(scalars) |-> ExpectedScalarLine(scalars[j]) \o <<"\n">>]
              Flat(ss) == Join(ss, << >>)
          IN  /\ Len(lines) >= n + 1
              /\ \A r \in 1..n : lines[r] \o <<"\n">> = palText[r]
              /\ Len(Warnings) = 16 - n
              /\ \A r \in 1..(16 - n) : Warnings[r].n = NthOf(0..15 \ present, r)
              /\ IF n + Len(scalars) = 0 THEN conf_content = <<"\n">>
                 ELSE conf_content = Flat(palText) \o Flat(scText)

\* a converted document with exactly one index absent: 15 lines, one warning
C6_Witness ==
    /\ Converted /\ IsThemeDocument(theme_data)
    /\ Cardinality(PresentIndices(theme_data)) = 15
    /\ Len(Warnings) = 1 /\ Warnings[1].n = 7
    /\ Len(ScalarEntries(theme_data)) = 2

ExampleText == <<"p","a","l","e","t","t","e"," ","="," ","0","=","#","1","1","1","1","1","1","\n","p","a","l","e","t","t","e"," ","="," ","1","=","#","f","f","0","0","0","0","\n","b","a","c","k","g","r","o","u","n","d"," ","="," ","#","1","1","1","1","1","1","\n">>

\* C7 as stated: the example document converts to its two palette lines, 13
\* warnings and the background line.
C7_AsStated ==
    (pc # "convert" /\ theme_data = JDict(ExampleDoc))
    => (Converted /\ conf_content = ExampleText /\ Len(Warnings) = 13)

\* C7 amended: the example document converts to its two palette lines and the
\* background line, with 14 warnings, one for each of the indices 2..15.
C7_Example ==
    (pc # "convert" /\ theme_data = JDict(ExampleDoc))
    => /\ Converted
       /\ conf_content = ExampleText
       /\ Len(Warnings) = 14
       /\ \A r \in 1..14 : Warnings[r].n = r + 1

C7_Witness == Converted /\ theme_data = JDict(ExampleDoc) /\ Len(log) = 14

---------------------------------------------------------------------------
(* Vocabulary of the properties about the privileged writer and main *)

Logged(tag) == \E k \in 1..Len(log) : log[k].tag = tag

LastTag == IF log = <<>> THEN "" ELSE log[Len(log)].tag

\* the unprivileged attempt failed with a PermissionError (EPERM or EACCES)
PermissionDeniedSeen ==
    \E k \in 1..Len(log) : /\ log[k].tag \in {"err_makedirs", "err_write"}
                           /\ log[k].n \in {1, 13}

\* the unprivileged attempt failed with another OSError
OtherFailureSeen ==
    \E k \in 1..Len(log) : /\ log[k].tag \in {"err_makedirs", "err_write"}
                           /\ log[k].n \notin {1, 13}

\* the operator answered the prompt (the input did not end before a line)
Answered == prompts > 0 /\ answer # EOF

\* the line typed is "y" or "Y" between optional white space
IsAffirmative(line) ==
    /\ line # EOF
    /\ \A k \in 1..Len(line) : line[k] \in {"y", "Y"} \cup SpaceChars
    /\ Cardinality({k \in 1..Len(line) : line[k] \in {"y", "Y"}}) = 1

\* the states of the specification's state machine, read off the process
\* position and the last diagnostic printed
WriterState ==
    CASE pc = "save_conf" -> "Attempt"
      [] pc = "prompt" -> "AskConsent"
      [] pc \in {"sudo_mkdir", "tmp_write", "sudo_mv"} -> "Escalate"
      [] pc = "done" /\ LastTag \in {"saved", "saved_via_sudo"} -> "Done"
      [] pc = "done" /\ LastTag = "skip_sudo" -> "Aborted"
      [] pc = "done" /\ LastTag \in {"sudo_failed", "sudo_failed_other"} -> "Failed"
      [] OTHER -> "None"

IsMkdir(args) == /\ Len(args) = 4
                 /\ args[1] = <<"s","u","d","o">>
                 /\ args[2] = <<"m","k","d","i","r">>
                 /\ args[3] = <<"-","p">>

IsMv(args) == /\ Len(args) = 4
              /\ args[1] = <<"s","u","d","o">>
              /\ args[2] = <<"m","v">>

TmpFileExists == \E f \in files : f.path \in TmpNames

\* the elevated call number k returned, with this exit status
Returned(k, rc) == Len(cmds) >= k /\ cmds[k].args = runs[k] /\ cmds[k].returncode = rc

\* the elevated call number k was made and failed: it exited non-zero or it
\* could not be started
CallFailed(k) == Len(runs) >= k /\ ~Returned(k, 0)

\* the fixed path of the flat file: the target directory and the lowercased name
FixedPath ==
    <<"/","A","p","p","l","i","c","a","t","i","o","n","s","/","G","h","o","s","t","t","y",".","a","p","p","/","C","o","n","t","e","n","t","s","/","R","e","s","o","u","r","c","e","s","/","t","h","e","m","e","s","/">> \o Lower(theme_name)

\* permission denied, consent, sudo mkdir succeeded, sudo mv was invoked and
\* exited non-zero
EscalatedMoveExitedNonZero ==
    /\ pc = "done"
    /\ PermissionDeniedSeen
    /\ prompts = 1 /\ IsAffirmative(answer)
    /\ Len(runs) = 2 /\ IsMkdir(runs[1]) /\ IsMv(runs[2])
    /\ Returned(1, 0)
    /\ Len(cmds) = 2 /\ cmds[2].returncode # 0

\* the same, sudo mv failing in either way: a non-zero exit or no start
EscalatedMoveFailed ==
    /\ pc = "done"
    /\ PermissionDeniedSeen
    /\ prompts = 1 /\ IsAffirmative(answer)
    /\ Len(runs) = 2 /\ IsMkdir(runs[1]) /\ IsMv(runs[2])
    /\ Returned(1, 0)
    /\ CallFailed(2)

\* generate_ghostty_theme_json has returned
Generated ==
    \/ Logged("theme_json_parsed")
    \/ Logged("json_decode_error")
    \/ Logged("openai_error")

\* generate_ghostty_theme_json has returned None
NoResult == Generated /\ theme_data = JNone

---------------------------------------------------------------------------
(* Claims about the privileged writer and main, under Spec *)

\* C1: a permission-denied failure of the unprivileged attempt leads to the
\* consent prompt, and once the prompt has been answered with anything but
\* "y" (after strip and lowercase) the writer has ended in Aborted, no
\* elevated command was invoked and no temporary file was created.
C1_NoConsentAborts ==
    /\ PermissionDeniedSeen => (pc = "prompt" \/ prompts = 1)
    /\ (Answered /\ ~IsAffirmative(answer))
       => /\ PermissionDeniedSeen
          /\ pc = "done"
          /\ WriterState = "Aborted"
          /\ runs = <<>> /\ cmds = <<>>
          /\ tmp_path = <<>> /\ ~TmpFileExists

C1_Witness ==
    /\ prompts = 1 /\ answer = <<"y","e","s">>
    /\ pc = "done" /\ LastTag = "skip_sudo"
    /\ Logged("err_write")

\* C2 as stated: after a permission-denied attempt, consent, a successful
\* sudo mkdir and a failing sudo mv, the writer is in Failed and the
\* temporary file no longer exists.
C2_AsStated ==
    EscalatedMoveFailed
    => /\ WriterState = "Failed"
       /\ ~TmpFileExists

\* C2 amended: in that case the writer is in Failed; when sudo mv exited
\* non-zero the temporary file no longer exists unless os.remove itself
\* raised the OSError that the clean-up ignores; when sudo mv could not be
\* started there is no clean-up and the temporary file is still there.
C2_TmpRemovedOnFailure ==
    EscalatedMoveFailed
    => /\ WriterState = "Failed"
       /\ tmp_path # <<>>
       /\ (EscalatedMoveExitedNonZero /\ ~rm_error) => ~TmpFileExists
       /\ (~EscalatedMoveExitedNonZero \/ rm_error)
          => \E f \in files : f.path = tmp_path /\ f.content = conf_content
       /\ \A f \in files : f.path # file_path

C2_Witness ==
    /\ EscalatedMoveExitedNonZero /\ ~rm_error
    /\ WriterState = "Failed"
    /\ Logged("err_makedirs")
    /\ ~TmpFileExists

\* C3: whenever the writer is in Done, the flat text is in the file at the
\* fixed path, whichever route led to Done.
C3_FixedPath ==
    WriterState = "Done"
    => \E f \in files : f.path = FixedPath /\ f.content = conf_content

\* C8: when generation yields no result, nothing downstream happens: no JSON
\* file, no flat file, no directory, no prompt, no elevated command, and
\* main returns after reporting the failure.
C8_NoResultSkipsPersistence ==
    NoResult
    => /\ json_files = {} /\ files = {} /\ dirs = {}
       /\ prompts = 0 /\ runs = <<>> /\ cmds = <<>>
       /\ conf_content = <<>>
       /\ pc \in {"main_branch", "done"}
       /\ (pc = "done" => LastTag = "failed_to_generate")

C8_Witness ==
    /\ Logged("json_decode_error")
    /\ pc = "done" /\ LastTag = "failed_to_generate"

\* C9: an elevated command is invoked only after a permission-denied failure
\* of the unprivileged attempt and an affirmative answer; the prompt is shown
\* at most once; no other outcome of the attempt leads to a prompt or an
\* elevated command.
C9_ConsentGating ==
    /\ prompts <= 1
    /\ (prompts > 0 \/ pc = "prompt") => PermissionDeniedSeen
    /\ (runs # <<>> \/ pc \in {"sudo_mkdir", "tmp_write", "sudo_mv"})
       => (PermissionDeniedSeen /\ prompts = 1 /\ IsAffirmative(answer))
    /\ (Logged("saved") \/ OtherFailureSeen)
       => (prompts = 0 /\ runs = <<>> /\ pc = "done" /\ ~PermissionDeniedSeen)

C9_Witness ==
    /\ runs # <<>> /\ answer = <<" ","Y","\r">>
    /\ \E k \in 1..Len(log) : log[k].tag = "err_makedirs" /\ log[k].n = 1

\* C10: sudo mkdir runs first; the temporary file and sudo mv come only after
\* it succeeded; a failing sudo mkdir ends the writer in Failed with no
\* temporary file and no sudo mv; at most two elevated commands are invoked,
\* and none after one that failed.
C10_EscalateOrdering ==
    /\ Len(runs) <= 2
    /\ Len(cmds) <= Len(runs)
    /\ Len(runs) >= 1 => (IsMkdir(runs[1]) /\ runs[1][4] = dir_path)
    /\ Len(runs) = 2 => /\ IsMv(runs[2])
                        /\ tmp_path # <<>>
                        /\ runs[2][3] = tmp_path
                        /\ runs[2][4] = file_path
    /\ (tmp_path # <<>> \/ TmpFileExists \/ Len(runs) = 2) => Returned(1, 0)
    /\ CallFailed(1)
       => /\ Len(runs) = 1
          /\ pc = "done"
          /\ WriterState = "Failed"
          /\ tmp_path = <<>> /\ ~TmpFileExists
    /\ \A k \in 1..Len(runs) : CallFailed(k) => (k = Len(runs) /\ pc = "done")

C10_Witness ==
    /\ Len(runs) = 1 /\ Len(cmds) = 1 /\ cmds[1].returncode = 1
    /\ pc = "done" /\ LastTag = "sudo_failed"

====
